---- MODULE Spec2Model ----
(***************************************************************************)
(* Model of the Ethiopia financial-inclusion data layer:                   *)
(*   - generate_record_id          (src/src/data_loader.py)                *)
(*   - EthiopiaFIDataLoader        (src/src/data_loader.py)                *)
(*   - Growth Rate Analysis, Key Milestones (src/dashboard/app.py)         *)
(* Identifiers handled by generate_record_id are sequences of one-letter   *)
(* strings, so that parsing and formatting of the numeric suffix are       *)
(* computed and not assumed.  Percentages are integers in tenths of a      *)
(* percentage point (54.2 is 542).                                         *)
(***************************************************************************)
EXTENDS Integers, Sequences, FiniteSets, TLC

VARIABLES
    \* generate_record_id
    base_id, existing_ids, gen_pc, prefix, num, i, new_id,
    \* EthiopiaFIDataLoader
    unified_data, reference_codes, loaded, val_outcome, validation_results, prev_outcome, prev_results,
    \* Key milestones loop
    years, projections, ms_k, milestones,
    \* Growth Rate Analysis
    historical, account_forecast, growth_pc, growth_data,
    \* EthiopiaFIDataLoader.get_data_summary
    sum_outcome, summary,
    \* Overview metric, Target Progress, Account Ownership trend
    dash_done, ov_metric, current_acc, trend,
    \* Overview P2P metric and P2P growth metrics
    p2p_forecast, p2p_metric, p2p_growth,
    \* scenario band and scenario projection selection
    scenarios, scenario_band, selected, scen_messages, proj_table,
    \* load_data and the Data Explorer section
    files, data, explorer_pc, explorer

genVars == <<base_id, existing_ids, gen_pc, prefix, num, i, new_id>>
valVars ==
    <<unified_data, reference_codes, loaded, val_outcome,
      validation_results, prev_outcome, prev_results>>
msVars == <<years, projections, ms_k, milestones>>
grVars == <<historical, account_forecast, growth_pc, growth_data>>
sumVars == <<sum_outcome, summary>>
dashVars == <<dash_done, ov_metric, current_acc, trend>>
p2pVars == <<p2p_forecast, p2p_metric, p2p_growth>>
scenVars == <<scenarios, scenario_band, selected, scen_messages, proj_table>>
expVars == <<files, data, explorer_pc, explorer>>
vars ==
    <<genVars, valVars, msVars, grVars, sumVars,
      dashVars, p2pVars, scenVars, expVars>>

Range(s) == {s[k] : k \in DOMAIN s}

SeqsUpTo(S, n) == UNION {[1..k -> S] : k \in 0..n}

(***************************************************************************)
(* Bounds                                                                  *)
(***************************************************************************)
\* largest numeric suffix among the identifiers offered to the generator
MaxNum == 2
\* largest number of identifiers in existing_ids
MaxExisting == 3

(***************************************************************************)
(* Strings, as sequences of characters                                     *)
(***************************************************************************)
DigitChars == <<"0", "1", "2", "3", "4", "5", "6", "7", "8", "9">>

\* the characters \d stands for
Digit == Range(DigitChars)

\* the characters [A-Z] stands for
UpperLetter ==
    {"A", "B", "C", "D", "E", "F", "G", "H", "I", "J", "K", "L", "M",
     "N", "O", "P", "Q", "R", "S", "T", "U", "V", "W", "X", "Y", "Z"}

Letter == UpperLetter \cup {"a", "b", "c", "x", "y", "z"}

DigitVal(c) == (CHOOSE d \in 1..10 : DigitChars[d] = c) - 1

\* int(s) for a non-empty string of digits
RECURSIVE ParseInt(_)
ParseInt(s) ==
    IF s = <<>> THEN 0
    ELSE 10 * ParseInt(SubSeq(s, 1, Len(s) - 1)) + DigitVal(s[Len(s)])

\* f"{n}" for n >= 0
RECURSIVE FormatInt(_)
FormatInt(n) ==
    IF n < 10 THEN <<DigitChars[n + 1]>>
    ELSE FormatInt(n \div 10) \o <<DigitChars[(n % 10) + 1]>>

\* f"{n:04d}" for n >= 0
RECURSIVE ZeroPad(_, _)
ZeroPad(s, width) == IF Len(s) >= width THEN s ELSE ZeroPad(<<"0">> \o s, width)

FormatInt04(n) == ZeroPad(FormatInt(n), 4)

\* length of the longest prefix of s, read from position from, made of
\* characters of the class C
RECURSIVE RunLen(_, _, _)
RunLen(s, from, C) ==
    IF from > Len(s) \/ s[from] \notin C THEN 0 ELSE 1 + RunLen(s, from + 1, C)

(***************************************************************************)
(* generate_record_id                                                      *)
(***************************************************************************)
\* re.match(r'([A-Z]+)_(\d+)', s): anchored at the start only
ReMatch(s) ==
    LET u == RunLen(s, 1, UpperLetter)
        d == RunLen(s, u + 2, Digit)
    IN  IF u >= 1 /\ Len(s) >= u + 2 /\ s[u + 1] = "_" /\ d >= 1
        THEN [matched |-> TRUE,
              prefix |-> SubSeq(s, 1, u),
              num |-> SubSeq(s, u + 2, u + 1 + d)]
        ELSE [matched |-> FALSE, prefix |-> <<>>, num |-> <<>>]

\* f"{prefix}_{num}"
NumCandidate(p, n) == p \o <<"_">> \o FormatInt(n)

\* f"{prefix}_{num:04d}"
NumResult(p, n) == p \o <<"_">> \o FormatInt04(n)

\* f"{base_id}_{i}"
SimpleCandidate(b, k) == b \o <<"_">> \o FormatInt(k)

\* the identifiers offered as base_id and in existing_ids
IdPool ==
    LET nums == 1..MaxNum
    IN  {NumCandidate(<<"A">>, n) : n \in nums}
        \cup {NumResult(<<"A">>, n) : n \in nums}
        \cup {<<"F">>} \cup {SimpleCandidate(<<"F">>, n) : n \in nums}
        \cup {<<"A", "_", "1", "X">>, <<"A", "_", "1", "X", "_", "1">>}
        \cup {<<"a", "_", "1">>, <<"a", "_", "1", "_", "1">>}

\* the membership test of line 126 inverted
NotInExisting_inverted(b, e) == b \in e

\* line 126: base_id not in existing_ids
NotInExisting(b, e) == b \notin e

\* the loop body of lines 136 and 142 without its increment
Increment_none(n) == n

\* lines 136 and 142: num += 1, i += 1
Increment(n) == n + 1

\* lines 126-134 and 140: the membership test, the match and the set-up of
\* the loop that follows
GenStart ==
    /\ gen_pc = "start"
    /\ IF NotInExisting(base_id, existing_ids)
       THEN /\ new_id' = base_id
            /\ gen_pc' = "done"
            /\ UNCHANGED <<prefix, num, i>>
       ELSE LET m == ReMatch(base_id)
            IN  IF m.matched
                THEN /\ prefix' = m.prefix
                     /\ num' = ParseInt(m.num)
                     /\ gen_pc' = "num_loop"
                     /\ UNCHANGED <<i, new_id>>
                ELSE /\ i' = 1
                     /\ gen_pc' = "simple_loop"
                     /\ UNCHANGED <<prefix, num, new_id>>
    /\ UNCHANGED <<base_id, existing_ids, valVars, msVars, grVars, sumVars,
                   dashVars, p2pVars, scenVars, expVars>>

\* lines 135-137: one evaluation of the while condition, then either the
\* loop body or the return
GenNumLoop ==
    /\ gen_pc = "num_loop"
    /\ IF NumCandidate(prefix, num) \in existing_ids
       THEN /\ num' = Increment(num)
            /\ UNCHANGED <<gen_pc, new_id>>
       ELSE /\ new_id' = NumResult(prefix, num)
            /\ gen_pc' = "done"
            /\ UNCHANGED num
    /\ UNCHANGED <<base_id, existing_ids, prefix, i, valVars, msVars, grVars,
                   sumVars, dashVars, p2pVars, scenVars, expVars>>

\* lines 141-143
GenSimpleLoop ==
    /\ gen_pc = "simple_loop"
    /\ IF SimpleCandidate(base_id, i) \in existing_ids
       THEN /\ i' = Increment(i)
            /\ UNCHANGED <<gen_pc, new_id>>
       ELSE /\ new_id' = SimpleCandidate(base_id, i)
            /\ gen_pc' = "done"
            /\ UNCHANGED i
    /\ UNCHANGED <<base_id, existing_ids, prefix, num, valVars, msVars, grVars,
                   sumVars, dashVars, p2pVars, scenVars, expVars>>

GenNext == GenStart \/ GenNumLoop \/ GenSimpleLoop

(***************************************************************************)
(* EthiopiaFIDataLoader                                                    *)
(***************************************************************************)
\* largest number of records in unified_data
MaxRows == 2
\* largest number of rows in reference_codes
MaxCodes == 2
\* largest number of required columns absent from unified_data
MaxMissing == 2

\* a field holding None is the empty sequence, a field holding a data frame f
\* is <<f>>
None == <<>>

Frame(f) == <<f>>

\* line 68-71
required_cols ==
    <<"record_id", "record_type", "category", "pillar",
      "indicator", "indicator_code", "observation_date">>

RecordIds == {"REC_0001", "REC_0002"}
RecordTypes == {"observation", "event", "bogus"}
CatalogFields == {"record_type", "pillar"}
CatalogCodes == {"observation", "event"}

\* a data frame read from ethiopia_fi_unified_data.csv: its columns and, per
\* row, the values validate_data reads
UnifiedFrames ==
    {[columns |-> Range(required_cols) \ miss, rows |-> r] :
        miss \in {m \in SUBSET Range(required_cols) : Cardinality(m) <= MaxMissing},
        r \in SeqsUpTo([record_id : RecordIds, record_type : RecordTypes], MaxRows)}

\* a data frame read from reference_codes.csv
CodeFrames == SeqsUpTo([field : CatalogFields, code : CatalogCodes], MaxCodes)

NoReport ==
    [keys |-> {}, error |-> "", missing_columns |-> <<>>,
     invalid_record_types |-> <<>>, duplicate_ids |-> {},
     summary |-> [total_records |-> 0, valid_record_types |-> <<>>,
                  data_quality |-> ""]]

\* Series.unique(): the distinct values in order of first appearance
RECURSIVE Unique(_)
Unique(s) ==
    IF s = <<>> THEN <<>>
    ELSE LET init == Unique(SubSeq(s, 1, Len(s) - 1))
         IN  IF s[Len(s)] \in Range(init) THEN init ELSE Append(init, s[Len(s)])

\* line 72
MissingCols(frame) ==
    LET Absent(col) == col \notin frame.columns
    IN  SelectSeq(required_cols, Absent)

\* lines 77-79 without the selection of the rows of field 'record_type'
ValidRecordTypes_anyfield(codes) == [k \in DOMAIN codes |-> codes[k].code]

\* lines 77-79
ValidRecordTypes(codes) ==
    LET IsRecordType(c) == c.field = "record_type"
        sel == SelectSeq(codes, IsRecordType)
    IN  [k \in DOMAIN sel |-> sel[k].code]

\* lines 80-82, then .unique() of line 84
InvalidRecordTypes(frame, valid) ==
    LET NotIsin(r) == r.record_type \notin Range(valid)
        sel == SelectSeq(frame.rows, NotIsin)
    IN  Unique([k \in DOMAIN sel |-> sel[k].record_type])

\* line 89 counting the keys of the report of the previous call as well, as
\* if line 62 did not start from an empty dictionary
DataQuality_stale(keys) ==
    IF Cardinality(keys \cup validation_results.keys) = 1 THEN "PASS" ELSE "NEEDS REVIEW"

\* line 89: evaluated before the 'summary' key is stored
DataQuality(keys) == IF Cardinality(keys) = 1 THEN "PASS" ELSE "NEEDS REVIEW"

\* lines 19-58: each file is read when it exists.  The records are loaded
\* once per session; val_outcome and validation_results are what the last
\* call of validate_data returned, prev_outcome and prev_results what the call
\* before it returned.
load_all_data ==
    /\ ~loaded
    /\ loaded' = TRUE
    /\ \/ \E u \in UnifiedFrames : unified_data' = Frame(u)
       \/ UNCHANGED unified_data
    /\ \/ \E c \in CodeFrames : reference_codes' = Frame(c)
       \/ UNCHANGED reference_codes
    /\ val_outcome' = "none"
    /\ validation_results' = NoReport
    /\ prev_outcome' = "none"
    /\ prev_results' = NoReport
    /\ UNCHANGED <<genVars, msVars, grVars, sumVars, dashVars, p2pVars, scenVars, expVars>>

\* lines 60-92
validate_data ==
    /\ IF unified_data = None \/ reference_codes = None
       THEN /\ val_outcome' = "returned"
            /\ validation_results' =
                  [NoReport EXCEPT !.keys = {"error"}, !.error = "Data not loaded"]
       ELSE LET frame == unified_data[1]
                codes == reference_codes[1]
                missing_cols == MissingCols(frame)
                k1 == IF missing_cols # <<>> THEN {"missing_columns"} ELSE {}
            IN  IF "record_type" \notin frame.columns
                THEN \* line 81: unified_data['record_type'] raises KeyError
                     /\ val_outcome' = "KeyError"
                     /\ validation_results' = NoReport
                ELSE LET valid == ValidRecordTypes(codes)
                         invalid == InvalidRecordTypes(frame, valid)
                         k2 == IF Len(invalid) > 0
                               THEN {"invalid_record_types"} ELSE {}
                     IN  /\ val_outcome' = "returned"
                         /\ validation_results' =
                               [NoReport EXCEPT
                                  !.keys = k1 \cup k2 \cup {"summary"},
                                  !.missing_columns = missing_cols,
                                  !.invalid_record_types = invalid,
                                  !.summary =
                                     [total_records |-> Len(frame.rows),
                                      valid_record_types |-> valid,
                                      data_quality |-> DataQuality(k1 \cup k2)]]
    /\ prev_outcome' = val_outcome
    /\ prev_results' = validation_results
    /\ UNCHANGED <<unified_data, reference_codes, loaded, genVars, msVars,
                   grVars, sumVars, dashVars, p2pVars, scenVars, expVars>>

ValNext == load_all_data \/ validate_data

(***************************************************************************)
(* EthiopiaFIDataLoader.get_data_summary                                   *)
(***************************************************************************)
\* largest number of records in the data summarised
MaxSumRows == 4

\* the columns read at lines 102, 108, 113 and 118, in that order
GroupFields == <<"record_type", "pillar", "source_type", "confidence">>

\* the keys of the summary, lines 105, 110, 115 and 120
SummaryKeys == <<"record_types", "pillars", "sources", "confidence">>

SumRecords ==
    [record_type : {"observation", "event"}, pillar : {"access", "usage"},
     source_type : {"survey"}, confidence : {"high"}]

\* the records of the specification's example: 8 observations and 2 events
ExampleRecords ==
    [k \in 1..10 |->
        [record_type |-> IF k <= 8 THEN "observation" ELSE "event",
         pillar |-> "access", source_type |-> "survey", confidence |-> "high"]]

\* data frames with any subset of the four columns
SummaryFrames ==
    {[columns |-> cols, rows |-> r] :
        cols \in SUBSET Range(GroupFields),
        r \in SeqsUpTo(SumRecords, MaxSumRows)}
    \cup {[columns |-> Range(GroupFields), rows |-> ExampleRecords]}

NoTable == [columns |-> <<>>, rows |-> <<>>]

NoSummary == [k \in Range(SummaryKeys) |-> NoTable]

\* the values of a column, row by row
Column(frame, field) == [k \in DOMAIN frame.rows |-> frame.rows[k][field]]

CountOf(col, v) == Cardinality({k \in DOMAIN col : col[k] = v})

\* insertion of entry e after the entries whose count is not smaller
RECURSIVE InsertByCount(_, _)
InsertByCount(t, e) ==
    IF t = <<>> THEN <<e>>
    ELSE IF e.count > Head(t).count
         THEN <<e>> \o t
         ELSE <<Head(t)>> \o InsertByCount(Tail(t), e)

RECURSIVE SortByCount(_)
SortByCount(t) ==
    IF t = <<>> THEN <<>>
    ELSE InsertByCount(SortByCount(SubSeq(t, 1, Len(t) - 1)), t[Len(t)])

\* Series.value_counts().reset_index(): one entry per distinct value, by
\* decreasing count, values of equal count in order of first appearance
ValueCounts(col) ==
    LET vals == Unique(col)
    IN  SortByCount([k \in DOMAIN vals |-> [value |-> vals[k], count |-> CountOf(col, vals[k])]])

\* round(1) of n / d * 100, in tenths, halves going to the even neighbour
Percentage(n, d) ==
    LET q == (n * 1000) \div d
        r == (n * 1000) % d
    IN  IF 2 * r > d \/ (2 * r = d /\ q % 2 = 1) THEN q + 1 ELSE q

\* lines 102-105
RecordTypeSummary(frame) ==
    LET vc == ValueCounts(Column(frame, "record_type"))
    IN  [columns |-> <<"record_type", "count", "percentage">>,
         rows |-> [k \in DOMAIN vc |->
                     [value |-> vc[k].value, count |-> vc[k].count,
                      percentage |-> Percentage(vc[k].count, Len(frame.rows))]]]

\* lines 108-109, 113-114 and 118-119
CountSummary(frame, field) ==
    [columns |-> <<field, "count">>, rows |-> ValueCounts(Column(frame, field))]

\* lines 94-122
get_data_summary ==
    /\ IF unified_data = None
       THEN /\ sum_outcome' = "returned"
            /\ summary' = NoSummary
       ELSE LET frame == unified_data[1]
            IN  IF \E f \in Range(GroupFields) : f \notin frame.columns
                THEN \* unified_data[f] raises KeyError
                     /\ sum_outcome' = "KeyError"
                     /\ summary' = NoSummary
                ELSE /\ sum_outcome' = "returned"
                     /\ summary' =
                           [record_types |-> RecordTypeSummary(frame),
                            pillars |-> CountSummary(frame, "pillar"),
                            sources |-> CountSummary(frame, "source_type"),
                            confidence |-> CountSummary(frame, "confidence")]
    /\ UNCHANGED <<genVars, valVars, msVars, grVars, dashVars, p2pVars, scenVars, expVars>>

SumNext == get_data_summary

(***************************************************************************)
(* Key milestones (Inclusion Projections section)                          *)
(***************************************************************************)
\* largest number of forecast years and of projected values
MaxPoints == 3

\* first year of the forecast tables
FirstForecastYear == 2025

\* lines 733, 735, 737: the thresholds, in the order they are tested
Thresholds == <<500, 600, 700>>

\* the series of the specification's example
ExampleYears == <<2014, 2017, 2021, 2025, 2026, 2027>>
ExampleSeries == <<220, 350, 470, 542, 568, 594>>

ProjectionPool == {470, 500, 542, 600, 640, 700}

\* zip(years, projections) stops with the shorter of the two
ZipLen(ys, ps) == IF Len(ys) <= Len(ps) THEN Len(ys) ELSE Len(ps)

\* the comparison of lines 733-737 made strict
Reached_strict(proj, t) == proj > t

\* proj >= 50, proj >= 60, proj >= 70
Reached(proj, t) == proj >= t

\* [m[1] for m in milestones]
Recorded(ms) == {ms[k][2] : k \in DOMAIN ms}

\* one of the three if statements of lines 733-738
RecordMilestone(ms, year, proj, t) ==
    IF Reached(proj, t) /\ t \notin Recorded(ms)
    THEN Append(ms, <<year, t>>)
    ELSE ms

\* lines 732-738: one iteration of the loop
MilestoneStep ==
    /\ ms_k < ZipLen(years, projections)
    /\ LET year == years[ms_k + 1]
           proj == projections[ms_k + 1]
           m1 == RecordMilestone(milestones, year, proj, Thresholds[1])
           m2 == RecordMilestone(m1, year, proj, Thresholds[2])
           m3 == RecordMilestone(m2, year, proj, Thresholds[3])
       IN  milestones' = m3
    /\ ms_k' = ms_k + 1
    /\ UNCHANGED <<years, projections, genVars, valVars, grVars, sumVars,
                   dashVars, p2pVars, scenVars, expVars>>

MsNext == MilestoneStep

(***************************************************************************)
(* Growth Rate Analysis (Trends & Forecasts, tab3)                         *)
(***************************************************************************)
\* largest number of records in the historical table
MaxHist == 3
\* largest number of rows in the account forecast table
MaxForecast == 2

\* observation_date values, as <<year, month, day>>
Dates == {<<2014, 12, 31>>, <<2017, 6, 30>>, <<2017, 12, 31>>}

\* a null observation_date, and what pd.to_datetime makes of it
NaT == <<>>

\* NaT.year is nan; every use of a year tests the date for NaT first
NaNYear == 0

\* the records that pass the filter of lines 539-543, one of them without a
\* date, and one record failing each of its three conditions
HistPool ==
    [indicator_code : {"ACC_OWNERSHIP"}, gender : {"all"},
     record_type : {"observation"}, observation_date : Dates,
     value_numeric : {220, 350}]
    \cup
    {[indicator_code |-> "ACC_OWNERSHIP", gender |-> "all",
      record_type |-> "observation", observation_date |-> NaT,
      value_numeric |-> 470],
     [indicator_code |-> "ACC_MM_ACCOUNT", gender |-> "all",
      record_type |-> "observation", observation_date |-> <<2021, 12, 31>>,
      value_numeric |-> 47],
     [indicator_code |-> "ACC_OWNERSHIP", gender |-> "female",
      record_type |-> "observation", observation_date |-> <<2021, 12, 31>>,
      value_numeric |-> 180],
     [indicator_code |-> "ACC_OWNERSHIP", gender |-> "all",
      record_type |-> "event", observation_date |-> <<2021, 5, 17>>,
      value_numeric |-> 0]}

ForecastPool == [year : {FirstForecastYear, FirstForecastYear + 2}, forecast : {542, 568}]

\* order of the 'YYYY-MM-DD' strings; sort_values puts the null dates last
DateLess(a, b) ==
    /\ a # NaT
    /\ \/ b = NaT
       \/ a[1] < b[1]
       \/ a[1] = b[1] /\ a[2] < b[2]
       \/ a[1] = b[1] /\ a[2] = b[2] /\ a[3] < b[3]

\* pd.to_datetime(d).year
YearOf(d) == IF d = NaT THEN NaNYear ELSE d[1]

\* the word of the label of line 569
ForecastWord == <<"F", "o", "r", "e", "c", "a", "s", "t">>

\* f'{year}' of line 553
YearText(d) == IF d = NaT THEN <<"n", "a", "n">> ELSE FormatInt(d[1])

\* insertion of r after the records that are not later than it
RECURSIVE InsertByDate(_, _)
InsertByDate(s, r) ==
    IF s = <<>> THEN <<r>>
    ELSE IF DateLess(r.observation_date, Head(s).observation_date)
         THEN <<r>> \o s
         ELSE <<Head(s)>> \o InsertByDate(Tail(s), r)

\* sort_values('observation_date'): records of equal date keep their order
RECURSIVE SortByDate(_)
SortByDate(s) ==
    IF s = <<>> THEN <<>>
    ELSE InsertByDate(SortByDate(SubSeq(s, 1, Len(s) - 1)), s[Len(s)])

\* lines 538-545
AccSeries(hist) ==
    LET Keep(r) == /\ r.indicator_code = "ACC_OWNERSHIP"
                   /\ r.gender = "all"
                   /\ r.record_type = "observation"
    IN  IF hist = <<>> THEN <<>> ELSE SortByDate(SelectSeq(hist, Keep))

\* lines 547-557: Annual_pp is the quotient Annual_num / Annual_den, infinite
\* or nan when Annual_den is 0, and nan when one of the two years is nan
HistoricalGrowth(acc) ==
    IF Len(acc) > 1
    THEN [k \in 1..(Len(acc) - 1) |->
            LET date1 == acc[k].observation_date
                date2 == acc[k + 1].observation_date
                nan == date1 = NaT \/ date2 = NaT
                growth == acc[k + 1].value_numeric - acc[k].value_numeric
            IN  [Period |-> <<YearText(date1), YearText(date2)>>,
                 Growth_pp |-> growth,
                 Annual_num |-> growth,
                 Annual_den |-> IF nan THEN 0 ELSE YearOf(date2) - YearOf(date1),
                 Annual_nan |-> nan]]
    ELSE <<>>

\* line 572: the value stored as Annual_pp of a forecast row
ForecastAnnual(growth, year1, year2) == [num |-> growth, den |-> 1]

\* lines 560-573
ForecastGrowth(acc, fc) ==
    LET last_historical == IF acc # <<>> THEN acc[Len(acc)].value_numeric ELSE 0
        last_year == IF acc # <<>> THEN YearOf(acc[Len(acc)].observation_date) ELSE 0
    IN  [k \in 1..Len(fc) |->
            LET growth == IF k = 1 THEN fc[k].forecast - last_historical
                          ELSE fc[k].forecast - fc[k - 1].forecast
                year1 == IF k = 1 THEN last_year ELSE fc[k - 1].year
                annual == ForecastAnnual(growth, year1, fc[k].year)
            IN  [Period |-> <<ForecastWord, FormatInt(fc[k].year)>>,
                 Growth_pp |-> growth,
                 Annual_num |-> annual.num,
                 Annual_den |-> annual.den,
                 Annual_nan |-> FALSE]]

\* lines 535-573
GrowthRateAnalysis ==
    /\ growth_pc = "start"
    /\ LET acc_series == AccSeries(historical)
       IN  growth_data' = HistoricalGrowth(acc_series)
                            \o ForecastGrowth(acc_series, account_forecast)
    /\ growth_pc' = "done"
    /\ UNCHANGED <<historical, account_forecast, genVars, valVars, msVars,
                   sumVars, dashVars, p2pVars, scenVars, expVars>>

GrNext == GrowthRateAnalysis

(***************************************************************************)
(* Overview account metric, Target Progress, Account Ownership trend       *)
(***************************************************************************)
\* line 613: the value shown when no observation is found
DefaultCurrentAcc == 490

NoMetric == [shown |-> FALSE, value |-> 0, has_delta |-> FALSE, delta |-> 0]

NoTrend == [shown |-> FALSE, points |-> <<>>]

\* lines 229-234: the selection, in the order of the table
CurrentAccount(hist) ==
    LET Keep(r) == /\ r.indicator_code = "ACC_OWNERSHIP"
                   /\ r.record_type = "observation"
                   /\ r.gender = "all"
    IN  IF hist = <<>> THEN <<>> ELSE SelectSeq(hist, Keep)

\* lines 236-245 with the two operands of line 238 exchanged
AccountMetric_swapped(cur) ==
    IF cur = <<>> THEN NoMetric
    ELSE [shown |-> TRUE,
          value |-> cur[Len(cur)].value_numeric,
          has_delta |-> Len(cur) > 1,
          delta |-> IF Len(cur) > 1
                    THEN cur[Len(cur) - 1].value_numeric - cur[Len(cur)].value_numeric
                    ELSE 0]

\* lines 235-249: the value and the delta handed to st.metric; "N/A" is
\* shown |-> FALSE, a delta of None is has_delta |-> FALSE
AccountMetric(cur) ==
    IF cur = <<>> THEN NoMetric
    ELSE [shown |-> TRUE,
          value |-> cur[Len(cur)].value_numeric,
          has_delta |-> Len(cur) > 1,
          delta |-> IF Len(cur) > 1
                    THEN cur[Len(cur)].value_numeric - cur[Len(cur) - 1].value_numeric
                    ELSE 0]

\* lines 228-249
OverviewAccountMetric ==
    /\ "overview" \notin dash_done
    /\ dash_done' = dash_done \cup {"overview"}
    /\ ov_metric' = AccountMetric(CurrentAccount(historical))
    /\ UNCHANGED <<current_acc, trend, genVars, valVars, msVars, grVars, sumVars,
                   p2pVars, scenVars, expVars>>

\* lines 613-620: the selection has no condition on gender
TargetProgress ==
    /\ "target" \notin dash_done
    /\ dash_done' = dash_done \cup {"target"}
    /\ LET Keep(r) == /\ r.indicator_code = "ACC_OWNERSHIP"
                      /\ r.record_type = "observation"
           acc_data == IF historical = <<>> THEN <<>> ELSE SelectSeq(historical, Keep)
       IN  current_acc' = IF acc_data # <<>>
                          THEN acc_data[Len(acc_data)].value_numeric
                          ELSE DefaultCurrentAcc
    /\ UNCHANGED <<ov_metric, trend, genVars, valVars, msVars, grVars, sumVars,
                   p2pVars, scenVars, expVars>>

\* lines 372-384 and 394-395: the points of the 'Historical' trace
TrendPreparation ==
    /\ "trend" \notin dash_done
    /\ dash_done' = dash_done \cup {"trend"}
    /\ LET historical_acc == CurrentAccount(historical)
           HasYear(r) == r.observation_date # NaT
           kept == SelectSeq(historical_acc, HasYear)
       IN  trend' =
              IF historical_acc # <<>> /\ account_forecast # <<>>
              THEN [shown |-> TRUE,
                    points |-> [k \in DOMAIN kept |->
                                  [year |-> YearOf(kept[k].observation_date),
                                   value |-> kept[k].value_numeric]]]
              ELSE NoTrend
    /\ UNCHANGED <<ov_metric, current_acc, genVars, valVars, msVars, grVars,
                   sumVars, p2pVars, scenVars, expVars>>

DashNext == OverviewAccountMetric \/ TargetProgress \/ TrendPreparation

(***************************************************************************)
(* Overview P2P metric and P2P growth metrics                              *)
(***************************************************************************)
\* longest observation table handed to the P2P handlers
MaxP2PHist == 2

\* longest P2P forecast table; the growth metrics need three rows
MaxP2PForecast == 3

\* P2P counts are written in tenths of a million (1280 is 128.0M); the
\* division by 1e6 of lines 270, 272, 476 and 479 is this change of unit

\* USG_P2P_COUNT observations, one of them of value 0 and one without a
\* date, and one record the filter of lines 265-268 rejects
P2PHistPool ==
    [indicator_code : {"USG_P2P_COUNT"}, gender : {"all"},
     record_type : {"observation"},
     observation_date : {<<2023, 12, 31>>, <<2024, 12, 31>>},
     value_numeric : {0, 1000, 1280}]
    \cup
    {[indicator_code |-> "USG_P2P_COUNT", gender |-> "all",
      record_type |-> "observation", observation_date |-> NaT,
      value_numeric |-> 900],
     [indicator_code |-> "ACC_OWNERSHIP", gender |-> "all",
      record_type |-> "observation", observation_date |-> <<2024, 12, 31>>,
      value_numeric |-> 490]}

\* p2p_forecast.csv: one row a year from the first forecast year on
P2PForecasts ==
    UNION {{[k \in 1..n |-> [year |-> FirstForecastYear + k - 1, forecast |-> v[k]]] :
               v \in [1..n -> {0, 1571, 1885}]} : n \in 0..MaxP2PForecast}

NoGrowthPct == [num |-> 0, den |-> 1]

NoP2PMetric == [outcome |-> "none", latest |-> 0, has_delta |-> FALSE,
                delta |-> NoGrowthPct]

NoP2PGrowth == [outcome |-> "none", growth_2025 |-> NoGrowthPct,
                growth_2026 |-> NoGrowthPct, cumulative |-> NoGrowthPct]

\* ((b / a) - 1) * 100 of lines 273, 518, 522 and 526 as the quotient
\* num / den; the operands are numpy floats, so that a = 0 raises nothing:
\* den = 0 stands for inf (num # 0) or nan (num = 0)
GrowthPct(a, b) == [num |-> (b - a) * 100, den |-> a]

\* lines 265-268 and 464-467
P2PData(hist) ==
    LET Keep(r) == /\ r.indicator_code = "USG_P2P_COUNT"
                   /\ r.record_type = "observation"
    IN  IF hist = <<>> THEN <<>> ELSE SelectSeq(hist, Keep)

\* lines 263-284
OverviewP2PMetric ==
    /\ p2p_metric.outcome = "none"
    /\ LET p2p_data == P2PData(historical)
           n == Len(p2p_data)
       IN  p2p_metric' =
              IF n = 0
              THEN [NoP2PMetric EXCEPT !.outcome = "N/A"]
              ELSE [outcome |-> "displayed",
                    latest |-> p2p_data[n].value_numeric,
                    has_delta |-> n > 1,
                    delta |-> IF n > 1
                              THEN GrowthPct(p2p_data[n - 1].value_numeric,
                                             p2p_data[n].value_numeric)
                              ELSE NoGrowthPct]
    /\ UNCHANGED <<p2p_forecast, p2p_growth, genVars, valVars, msVars, grVars,
                   sumVars, dashVars, scenVars, expVars>>

\* lines 463-527: the three metrics under the P2P chart
P2PGrowthMetrics ==
    /\ p2p_growth.outcome = "none"
    /\ LET matching == P2PData(historical)
           HasYear(r) == r.observation_date # NaT
           historical_p2p == SelectSeq(matching, HasYear)
           n == Len(historical_p2p)
       IN  p2p_growth' =
              IF matching # <<>> /\ p2p_forecast # <<>>
              THEN IF Len(p2p_forecast) >= 3 /\ n > 0
                   THEN [outcome |-> "displayed",
                         growth_2025 |-> GrowthPct(historical_p2p[n].value_numeric,
                                                   p2p_forecast[1].forecast),
                         growth_2026 |-> GrowthPct(p2p_forecast[1].forecast,
                                                   p2p_forecast[2].forecast),
                         cumulative |-> GrowthPct(historical_p2p[n].value_numeric,
                                                  p2p_forecast[3].forecast)]
                   ELSE [NoP2PGrowth EXCEPT !.outcome = "chart only"]
              ELSE [NoP2PGrowth EXCEPT !.outcome = "Insufficient data"]
    /\ UNCHANGED <<p2p_forecast, p2p_metric, genVars, valVars, msVars, grVars,
                   sumVars, dashVars, scenVars, expVars>>

P2PNext == OverviewP2PMetric \/ P2PGrowthMetrics

(***************************************************************************)
(* Scenario band and scenario projection selection                         *)
(***************************************************************************)
\* longest scenario table
MaxScen == 2

\* rows of scenarios.csv: one in order, one flat, two out of order
ScenarioPool ==
    {[year |-> y, indicator |-> "ACC_OWNERSHIP",
      pessimistic |-> t[1], baseline |-> t[2], optimistic |-> t[3]] :
        y \in {FirstForecastYear, FirstForecastYear + 1},
        t \in {<<517, 542, 573>>, <<542, 542, 542>>,
               <<573, 542, 517>>, <<517, 573, 542>>}}

NoBand == [outcome |-> "none", years |-> <<>>, upper |-> <<>>, lower |-> <<>>]

NoSelection == [outcome |-> "none", scenario |-> "", years |-> <<>>,
                projections |-> <<>>]

\* one column of a table
ColumnOf(table, name) == [k \in DOMAIN table |-> table[k][name]]

\* lines 372-456: the 'Scenario Range' trace of the trend chart, drawn from
\* the optimistic and pessimistic columns as they are
ScenarioBandTrace ==
    /\ scenario_band.outcome = "none"
    /\ IF CurrentAccount(historical) # <<>> /\ account_forecast # <<>>
       THEN /\ scenario_band' =
                  IF scenarios # <<>>
                  THEN [outcome |-> "drawn",
                        years |-> ColumnOf(scenarios, "year"),
                        upper |-> ColumnOf(scenarios, "optimistic"),
                        lower |-> ColumnOf(scenarios, "pessimistic")]
                  ELSE [NoBand EXCEPT !.outcome = "no band"]
            /\ UNCHANGED scen_messages
       ELSE /\ scenario_band' = [NoBand EXCEPT !.outcome = "no chart"]
            /\ scen_messages' = scen_messages
                  \cup {"Insufficient data to display account ownership trends"}
    /\ UNCHANGED <<scenarios, selected, proj_table, genVars, valVars, msVars, grVars, sumVars,
                   dashVars, p2pVars, expVars>>

\* lines 630-654 and 745-746: the projections of the scenario chosen
ScenarioProjectionSelection ==
    /\ selected.outcome = "none"
    /\ \E scenario \in {"Baseline", "Optimistic", "Pessimistic"} :
          IF account_forecast # <<>> /\ scenarios # <<>>
          THEN /\ selected' =
                     [outcome |-> "selected",
                      scenario |-> scenario,
                      years |-> ColumnOf(account_forecast, "year"),
                      projections |->
                         IF scenario = "Optimistic"
                         THEN ColumnOf(scenarios, "optimistic")
                         ELSE IF scenario = "Pessimistic"
                              THEN ColumnOf(scenarios, "pessimistic")
                              ELSE ColumnOf(account_forecast, "forecast")]
               /\ UNCHANGED scen_messages
          ELSE /\ selected' = [NoSelection EXCEPT !.outcome = "no projection",
                                                  !.scenario = scenario]
               /\ scen_messages' = scen_messages
                     \cup {"Insufficient data for inclusion projections"}
    /\ UNCHANGED <<scenarios, scenario_band, proj_table, genVars, valVars, msVars, grVars,
                   sumVars, dashVars, p2pVars, expVars>>

\* the target of line 723, in tenths of a percent
TargetPct == 700

NoProjTable == [outcome |-> "none", rows |-> <<>>]

\* lines 718-726: pd.DataFrame pairs the three columns by position and
\* refuses columns of different lengths
DetailedProjections ==
    /\ selected.outcome = "selected"
    /\ proj_table.outcome = "none"
    /\ proj_table' =
          IF Len(selected.years) # Len(selected.projections)
          THEN [outcome |-> "ValueError", rows |-> <<>>]
          ELSE [outcome |-> "shown",
                rows |-> [k \in DOMAIN selected.years |->
                            [Year |-> selected.years[k],
                             Projection |-> selected.projections[k],
                             Gap_to_Target |-> TargetPct - selected.projections[k]]]]
    /\ UNCHANGED <<scenarios, scenario_band, selected, scen_messages, genVars,
                   valVars, msVars, grVars, sumVars, dashVars, p2pVars, expVars>>

ScenNext == ScenarioBandTrace \/ ScenarioProjectionSelection \/ DetailedProjections

(***************************************************************************)
(* load_data and the Data Explorer section                                 *)
(***************************************************************************)
\* the keys of files_to_load, lines 100-107
FileKeys == {"account_forecast", "p2p_forecast", "scenarios", "enriched",
             "impact_matrix", "historical"}

\* a file that does not exist, and a csv file with a header and these rows;
\* a row of the historical file is written as its record_type, a row of
\* another file as "row"
MissingFile == [exists |-> FALSE, rows |-> <<>>]

CsvFile(rows) == [exists |-> TRUE, rows |-> rows]

FileSets ==
    {f \in [FileKeys -> {MissingFile}
                           \cup {CsvFile(r) : r \in SeqsUpTo({"row"}, 1)}
                           \cup {CsvFile(r) :
                                   r \in SeqsUpTo({"observation", "event"}, 2)}] :
        \A k \in FileKeys :
            \A j \in DOMAIN f[k].rows :
                (f[k].rows[j] = "row") = (k # "historical")}

NoFiles == [k \in FileKeys |-> MissingFile]

\* pd.DataFrame(): no columns and no rows
EmptyFrame == [has_columns |-> FALSE, rows |-> <<>>]

NoData == [k \in FileKeys |-> EmptyFrame]

NoDisplay == [dataset |-> "", outcome |-> "none", records |-> 0]

\* lines 111-117: read_csv, or pd.DataFrame() for a file not found
ReadCsv(file) ==
    IF file.exists THEN [has_columns |-> TRUE, rows |-> file.rows] ELSE EmptyFrame

\* df.empty
IsEmpty(frame) == frame.rows = <<>>

\* lines 129-186
create_demo_data ==
    [k \in FileKeys |->
       [has_columns |-> TRUE,
        rows |-> IF k \in {"historical", "enriched"}
                 THEN <<"observation", "observation", "observation", "event", "event">>
                 ELSE IF k = "impact_matrix" THEN <<"row", "row">>
                      ELSE <<"row", "row", "row">>]]

\* lines 96-127
load_data ==
    /\ explorer_pc = "start"
    /\ explorer_pc' = "loaded"
    /\ LET read == [k \in FileKeys |-> ReadCsv(files[k])]
       IN  data' = IF \A k \in FileKeys : IsEmpty(read[k])
                   THEN create_demo_data
                   ELSE read
    /\ UNCHANGED <<files, explorer, genVars, valVars, msVars, grVars, sumVars,
                   dashVars, p2pVars, scenVars>>

\* lines 830, 836: data['historical'][data['historical']['record_type'] == t];
\* a frame without columns has no 'record_type' to look up
OfRecordType(frame, t) == SelectSeq(frame.rows, LAMBDA r : r = t)

\* lines 821-823
DatasetOptions ==
    {"Historical Observations", "Forecasts", "Events", "All Data"}
       \cup (IF IsEmpty(data["enriched"]) THEN {} ELSE {"Enriched Data"})

\* lines 828-840: the rows to display
DisplayData(dataset) ==
    IF dataset = "Historical Observations"
    THEN OfRecordType(data["historical"], "observation")
    ELSE IF dataset = "Forecasts"
    THEN IF ~IsEmpty(data["account_forecast"]) /\ ~IsEmpty(data["p2p_forecast"])
         THEN data["account_forecast"].rows \o data["p2p_forecast"].rows
         ELSE <<>>
    ELSE IF dataset = "Events"
    THEN OfRecordType(data["historical"], "event")
    ELSE IF dataset = "Enriched Data"
    THEN data["enriched"].rows
    ELSE data["historical"].rows

\* lines 818-882
DataExplorer ==
    /\ explorer_pc = "loaded"
    /\ explorer_pc' = "done"
    /\ \E dataset \in DatasetOptions :
          explorer' =
             IF /\ dataset \in {"Historical Observations", "Events"}
                /\ ~data["historical"].has_columns
             THEN [dataset |-> dataset, outcome |-> "KeyError", records |-> 0]
             ELSE LET display_data == DisplayData(dataset)
                  IN  IF display_data # <<>>
                      THEN [dataset |-> dataset, outcome |-> "displayed",
                            records |-> Len(display_data)]
                      ELSE [dataset |-> dataset, outcome |-> "no data",
                            records |-> 0]
    /\ UNCHANGED <<files, data, genVars, valVars, msVars, grVars, sumVars,
                   dashVars, p2pVars, scenVars>>

ExplorerNext == load_data \/ DataExplorer

(***************************************************************************)
(* Specifications                                                          *)
(***************************************************************************)
\* a call of generate_record_id on arguments drawn from IdPool
InitGen ==
    /\ base_id \in IdPool
    /\ existing_ids \in {e \in SUBSET IdPool : Cardinality(e) <= MaxExisting}
    /\ gen_pc = "start"
    /\ prefix = <<>>
    /\ num = 0
    /\ i = 0
    /\ new_id = <<>>
    /\ unified_data = None
    /\ reference_codes = None
    /\ loaded = FALSE
    /\ val_outcome = "none"
    /\ validation_results = NoReport
    /\ prev_outcome = "none"
    /\ prev_results = NoReport
    /\ years = <<>>
    /\ projections = <<>>
    /\ ms_k = 0
    /\ milestones = <<>>
    /\ historical = <<>>
    /\ account_forecast = <<>>
    /\ growth_pc = "idle"
    /\ growth_data = <<>>
    /\ sum_outcome = "none"
    /\ summary = NoSummary
    /\ dash_done = {}
    /\ ov_metric = NoMetric
    /\ current_acc = DefaultCurrentAcc
    /\ trend = NoTrend
    /\ p2p_forecast = <<>>
    /\ p2p_metric = NoP2PMetric
    /\ p2p_growth = NoP2PGrowth
    /\ scenarios = <<>>
    /\ scenario_band = NoBand
    /\ selected = NoSelection
    /\ scen_messages = {}
    /\ proj_table = NoProjTable
    /\ files = NoFiles
    /\ data = NoData
    /\ explorer_pc = "start"
    /\ explorer = NoDisplay

\* a loader just constructed (data_loader.py lines 13-17)
InitVal ==
    /\ base_id = <<>>
    /\ existing_ids = {}
    /\ gen_pc = "idle"
    /\ prefix = <<>>
    /\ num = 0
    /\ i = 0
    /\ new_id = <<>>
    /\ unified_data = None
    /\ reference_codes = None
    /\ loaded = FALSE
    /\ val_outcome = "none"
    /\ validation_results = NoReport
    /\ prev_outcome = "none"
    /\ prev_results = NoReport
    /\ years = <<>>
    /\ projections = <<>>
    /\ ms_k = 0
    /\ milestones = <<>>
    /\ historical = <<>>
    /\ account_forecast = <<>>
    /\ growth_pc = "idle"
    /\ growth_data = <<>>
    /\ sum_outcome = "none"
    /\ summary = NoSummary
    /\ dash_done = {}
    /\ ov_metric = NoMetric
    /\ current_acc = DefaultCurrentAcc
    /\ trend = NoTrend
    /\ p2p_forecast = <<>>
    /\ p2p_metric = NoP2PMetric
    /\ p2p_growth = NoP2PGrowth
    /\ scenarios = <<>>
    /\ scenario_band = NoBand
    /\ selected = NoSelection
    /\ scen_messages = {}
    /\ proj_table = NoProjTable
    /\ files = NoFiles
    /\ data = NoData
    /\ explorer_pc = "start"
    /\ explorer = NoDisplay

\* years and projections as lines 644-654 leave them, before the milestones loop
InitMs ==
    /\ base_id = <<>>
    /\ existing_ids = {}
    /\ gen_pc = "idle"
    /\ prefix = <<>>
    /\ num = 0
    /\ i = 0
    /\ new_id = <<>>
    /\ unified_data = None
    /\ reference_codes = None
    /\ loaded = FALSE
    /\ val_outcome = "none"
    /\ validation_results = NoReport
    /\ prev_outcome = "none"
    /\ prev_results = NoReport
    /\ \/ /\ years \in {[k \in 1..n |-> FirstForecastYear + k - 1] : n \in 0..MaxPoints}
          /\ projections \in SeqsUpTo(ProjectionPool, MaxPoints)
       \/ /\ years = ExampleYears
          /\ projections = ExampleSeries
    /\ ms_k = 0
    /\ milestones = <<>>
    /\ historical = <<>>
    /\ account_forecast = <<>>
    /\ growth_pc = "idle"
    /\ growth_data = <<>>
    /\ sum_outcome = "none"
    /\ summary = NoSummary
    /\ dash_done = {}
    /\ ov_metric = NoMetric
    /\ current_acc = DefaultCurrentAcc
    /\ trend = NoTrend
    /\ p2p_forecast = <<>>
    /\ p2p_metric = NoP2PMetric
    /\ p2p_growth = NoP2PGrowth
    /\ scenarios = <<>>
    /\ scenario_band = NoBand
    /\ selected = NoSelection
    /\ scen_messages = {}
    /\ proj_table = NoProjTable
    /\ files = NoFiles
    /\ data = NoData
    /\ explorer_pc = "start"
    /\ explorer = NoDisplay

\* the tables handed to Growth Rate Analysis
InitGrowth ==
    /\ base_id = <<>>
    /\ existing_ids = {}
    /\ gen_pc = "idle"
    /\ prefix = <<>>
    /\ num = 0
    /\ i = 0
    /\ new_id = <<>>
    /\ unified_data = None
    /\ reference_codes = None
    /\ loaded = FALSE
    /\ val_outcome = "none"
    /\ validation_results = NoReport
    /\ prev_outcome = "none"
    /\ prev_results = NoReport
    /\ years = <<>>
    /\ projections = <<>>
    /\ ms_k = 0
    /\ milestones = <<>>
    /\ historical \in SeqsUpTo(HistPool, MaxHist)
    /\ account_forecast \in SeqsUpTo(ForecastPool, MaxForecast)
    /\ growth_pc = "start"
    /\ growth_data = <<>>
    /\ sum_outcome = "none"
    /\ summary = NoSummary
    /\ dash_done = {}
    /\ ov_metric = NoMetric
    /\ current_acc = DefaultCurrentAcc
    /\ trend = NoTrend
    /\ p2p_forecast = <<>>
    /\ p2p_metric = NoP2PMetric
    /\ p2p_growth = NoP2PGrowth
    /\ scenarios = <<>>
    /\ scenario_band = NoBand
    /\ selected = NoSelection
    /\ scen_messages = {}
    /\ proj_table = NoProjTable
    /\ files = NoFiles
    /\ data = NoData
    /\ explorer_pc = "start"
    /\ explorer = NoDisplay

\* a loader whose unified data, if any, carry the columns get_data_summary reads
InitSum ==
    /\ base_id = <<>>
    /\ existing_ids = {}
    /\ gen_pc = "idle"
    /\ prefix = <<>>
    /\ num = 0
    /\ i = 0
    /\ new_id = <<>>
    /\ unified_data \in {None} \cup {Frame(f) : f \in SummaryFrames}
    /\ reference_codes = None
    /\ loaded = TRUE
    /\ val_outcome = "none"
    /\ validation_results = NoReport
    /\ prev_outcome = "none"
    /\ prev_results = NoReport
    /\ years = <<>>
    /\ projections = <<>>
    /\ ms_k = 0
    /\ milestones = <<>>
    /\ historical = <<>>
    /\ account_forecast = <<>>
    /\ growth_pc = "idle"
    /\ growth_data = <<>>
    /\ sum_outcome = "none"
    /\ summary = NoSummary
    /\ dash_done = {}
    /\ ov_metric = NoMetric
    /\ current_acc = DefaultCurrentAcc
    /\ trend = NoTrend
    /\ p2p_forecast = <<>>
    /\ p2p_metric = NoP2PMetric
    /\ p2p_growth = NoP2PGrowth
    /\ scenarios = <<>>
    /\ scenario_band = NoBand
    /\ selected = NoSelection
    /\ scen_messages = {}
    /\ proj_table = NoProjTable
    /\ files = NoFiles
    /\ data = NoData
    /\ explorer_pc = "start"
    /\ explorer = NoDisplay

\* the tables handed to the Overview, Target Progress and trend handlers
InitDash ==
    /\ base_id = <<>>
    /\ existing_ids = {}
    /\ gen_pc = "idle"
    /\ prefix = <<>>
    /\ num = 0
    /\ i = 0
    /\ new_id = <<>>
    /\ unified_data = None
    /\ reference_codes = None
    /\ loaded = FALSE
    /\ val_outcome = "none"
    /\ validation_results = NoReport
    /\ prev_outcome = "none"
    /\ prev_results = NoReport
    /\ years = <<>>
    /\ projections = <<>>
    /\ ms_k = 0
    /\ milestones = <<>>
    /\ historical \in SeqsUpTo(HistPool, MaxHist)
    /\ account_forecast \in SeqsUpTo(ForecastPool, 1)
    /\ growth_pc = "idle"
    /\ growth_data = <<>>
    /\ sum_outcome = "none"
    /\ summary = NoSummary
    /\ dash_done = {}
    /\ ov_metric = NoMetric
    /\ current_acc = DefaultCurrentAcc
    /\ trend = NoTrend
    /\ p2p_forecast = <<>>
    /\ p2p_metric = NoP2PMetric
    /\ p2p_growth = NoP2PGrowth
    /\ scenarios = <<>>
    /\ scenario_band = NoBand
    /\ selected = NoSelection
    /\ scen_messages = {}
    /\ proj_table = NoProjTable
    /\ files = NoFiles
    /\ data = NoData
    /\ explorer_pc = "start"
    /\ explorer = NoDisplay

\* the tables handed to the two P2P handlers
InitP2P ==
    /\ base_id = <<>>
    /\ existing_ids = {}
    /\ gen_pc = "idle"
    /\ prefix = <<>>
    /\ num = 0
    /\ i = 0
    /\ new_id = <<>>
    /\ unified_data = None
    /\ reference_codes = None
    /\ loaded = FALSE
    /\ val_outcome = "none"
    /\ validation_results = NoReport
    /\ prev_outcome = "none"
    /\ prev_results = NoReport
    /\ years = <<>>
    /\ projections = <<>>
    /\ ms_k = 0
    /\ milestones = <<>>
    /\ historical \in SeqsUpTo(P2PHistPool, MaxP2PHist)
    /\ account_forecast = <<>>
    /\ growth_pc = "idle"
    /\ growth_data = <<>>
    /\ sum_outcome = "none"
    /\ summary = NoSummary
    /\ dash_done = {}
    /\ ov_metric = NoMetric
    /\ current_acc = DefaultCurrentAcc
    /\ trend = NoTrend
    /\ p2p_forecast \in P2PForecasts
    /\ p2p_metric = NoP2PMetric
    /\ p2p_growth = NoP2PGrowth
    /\ scenarios = <<>>
    /\ scenario_band = NoBand
    /\ selected = NoSelection
    /\ scen_messages = {}
    /\ proj_table = NoProjTable
    /\ files = NoFiles
    /\ data = NoData
    /\ explorer_pc = "start"
    /\ explorer = NoDisplay

\* the tables handed to the two scenario handlers
InitScen ==
    /\ base_id = <<>>
    /\ existing_ids = {}
    /\ gen_pc = "idle"
    /\ prefix = <<>>
    /\ num = 0
    /\ i = 0
    /\ new_id = <<>>
    /\ unified_data = None
    /\ reference_codes = None
    /\ loaded = FALSE
    /\ val_outcome = "none"
    /\ validation_results = NoReport
    /\ prev_outcome = "none"
    /\ prev_results = NoReport
    /\ years = <<>>
    /\ projections = <<>>
    /\ ms_k = 0
    /\ milestones = <<>>
    /\ historical \in SeqsUpTo(HistPool, 1)
    /\ account_forecast \in SeqsUpTo(ForecastPool, 1)
    /\ growth_pc = "idle"
    /\ growth_data = <<>>
    /\ sum_outcome = "none"
    /\ summary = NoSummary
    /\ dash_done = {}
    /\ ov_metric = NoMetric
    /\ current_acc = DefaultCurrentAcc
    /\ trend = NoTrend
    /\ p2p_forecast = <<>>
    /\ p2p_metric = NoP2PMetric
    /\ p2p_growth = NoP2PGrowth
    /\ scenarios \in SeqsUpTo(ScenarioPool, MaxScen)
    /\ scenario_band = NoBand
    /\ selected = NoSelection
    /\ scen_messages = {}
    /\ proj_table = NoProjTable
    /\ files = NoFiles
    /\ data = NoData
    /\ explorer_pc = "start"
    /\ explorer = NoDisplay

\* the six input files, each missing, without rows or with rows
InitExplorer ==
    /\ base_id = <<>>
    /\ existing_ids = {}
    /\ gen_pc = "idle"
    /\ prefix = <<>>
    /\ num = 0
    /\ i = 0
    /\ new_id = <<>>
    /\ unified_data = None
    /\ reference_codes = None
    /\ loaded = FALSE
    /\ val_outcome = "none"
    /\ validation_results = NoReport
    /\ prev_outcome = "none"
    /\ prev_results = NoReport
    /\ years = <<>>
    /\ projections = <<>>
    /\ ms_k = 0
    /\ milestones = <<>>
    /\ historical = <<>>
    /\ account_forecast = <<>>
    /\ growth_pc = "idle"
    /\ growth_data = <<>>
    /\ sum_outcome = "none"
    /\ summary = NoSummary
    /\ dash_done = {}
    /\ ov_metric = NoMetric
    /\ current_acc = DefaultCurrentAcc
    /\ trend = NoTrend
    /\ p2p_forecast = <<>>
    /\ p2p_metric = NoP2PMetric
    /\ p2p_growth = NoP2PGrowth
    /\ scenarios = <<>>
    /\ scenario_band = NoBand
    /\ selected = NoSelection
    /\ scen_messages = {}
    /\ proj_table = NoProjTable
    /\ files \in FileSets
    /\ data = NoData
    /\ explorer_pc = "start"
    /\ explorer = NoDisplay

SpecGen == InitGen /\ [][GenNext]_vars

\* the same call, run to its end: an interpreter that has entered
\* generate_record_id keeps executing its statements
SpecGenLive == InitGen /\ [][GenNext]_vars /\ WF_vars(GenNext)

SpecVal == InitVal /\ [][ValNext]_vars

SpecMs == InitMs /\ [][MsNext]_vars

SpecGrowth == InitGrowth /\ [][GrNext]_vars

SpecSum == InitSum /\ [][SumNext]_vars

SpecDash == InitDash /\ [][DashNext]_vars

SpecP2P == InitP2P /\ [][P2PNext]_vars

SpecScen == InitScen /\ [][ScenNext]_vars

SpecExplorer == InitExplorer /\ [][ExplorerNext]_vars

(***************************************************************************)
(* Properties of generate_record_id (SpecGen)                              *)
(***************************************************************************)
GenDone == gen_pc = "done"

\* s is, as a whole string, <letters>_<digits>, the letters taken in L
WholeForm(s, L) ==
    LET u == RunLen(s, 1, L)
        d == RunLen(s, u + 2, Digit)
    IN  u >= 1 /\ Len(s) >= u + 2 /\ s[u + 1] = "_" /\ d >= 1 /\ u + 1 + d = Len(s)

LettersOf(s) == SubSeq(s, 1, RunLen(s, 1, UpperLetter))

DigitsOf(s) == SubSeq(s, RunLen(s, 1, UpperLetter) + 2, Len(s))

\* the smallest m >= n such that Cand(m) is not in e
SmallestFree(n, e, Cand(_)) ==
    CHOOSE m \in n..(n + Cardinality(e)) :
        /\ Cand(m) \notin e
        /\ \A k \in n..(m - 1) : Cand(k) \in e

\* C1: the identifier returned by generate_record_id(base_id, existing_ids)
\* is never a member of existing_ids.
C1_CollisionFree == GenDone => new_id \notin existing_ids

\* C3: when base_id is in existing_ids and is <letters>_<digits> (letters of
\* the class the code matches, as in REC_0001) with numeric
\* value n, the result is <letters>_<m>, m zero-padded to at least 4 digits,
\* m the smallest number >= n whose so-formatted identifier is unused.
C3_NumericScan ==
    (GenDone /\ base_id \in existing_ids /\ WholeForm(base_id, UpperLetter)) =>
        LET letters == LettersOf(base_id)
            Cand(m) == NumResult(letters, m)
        IN  new_id = Cand(SmallestFree(ParseInt(DigitsOf(base_id)), existing_ids, Cand))

\* C4: when base_id is in existing_ids and is not, as a whole string,
\* <letters>_<digits> (letters of either case), the result is base_id followed by "_i", i the smallest
\* integer >= 1 such that base_id_i is unused.
C4_SimpleAppend ==
    (GenDone /\ base_id \in existing_ids /\ ~WholeForm(base_id, Letter)) =>
        LET Cand(k) == SimpleCandidate(base_id, k)
        IN  new_id = Cand(SmallestFree(1, existing_ids, Cand))

\* C5: when base_id is not a member of existing_ids, the result is base_id
\* itself, whatever its format.
C5_UnusedUnchanged == (GenDone /\ base_id \notin existing_ids) => new_id = base_id

\* an unused base_id that the zero-padding of line 137 would rewrite
C5_Witness ==
    /\ GenDone
    /\ base_id \notin existing_ids
    /\ ReMatch(base_id).matched
    /\ NumResult(ReMatch(base_id).prefix, ParseInt(ReMatch(base_id).num)) # base_id
    /\ new_id = base_id

(***************************************************************************)
(* Properties of validate_data (SpecVal)                                   *)
(***************************************************************************)
DataLoaded == unified_data # None /\ reference_codes # None

\* the last call of validate_data returned a report with a summary
ReportReturned == val_outcome = "returned" /\ "summary" \in validation_results.keys

StoreRows == unified_data[1].rows

\* the record_ids occurring in more than one record
DuplicateIds ==
    {id \in RecordIds :
        Cardinality({k \in DOMAIN StoreRows : StoreRows[k].record_id = id}) > 1}

\* C2: the verdict is PASS exactly when none of the issue categories (missing
\* columns, invalid vocabulary values, duplicate ids) is non-empty, and is the
\* review verdict in every other case.
C2_VerdictPassIffNoIssues ==
    ReportReturned =>
        LET noIssues == /\ MissingCols(unified_data[1]) = <<>>
                        /\ validation_results.invalid_record_types = <<>>
                        /\ DuplicateIds = {}
            verdict == validation_results.summary.data_quality
        IN  /\ verdict = "PASS" <=> noIssues
            /\ ~noIssues => verdict = "NEEDS REVIEW"

\* C6: for a loaded store lacking any subset of the required fields,
\* validate_data does not fail the call and its report lists exactly the
\* missing required fields in missing_columns.
C6_MissingColumnsReported ==
    (DataLoaded /\ val_outcome # "none") =>
        LET missing == Range(required_cols) \ unified_data[1].columns
        IN  /\ val_outcome = "returned"
            /\ Range(validation_results.missing_columns) = missing
            /\ "missing_columns" \in validation_results.keys <=> missing # {}

\* C7: for a store in which some record_id occurs in more than one record,
\* the report holds in duplicate_ids exactly the record_ids occurring more
\* than once and the verdict is not PASS.
C7_DuplicateIdsReported ==
    (ReportReturned /\ "record_id" \in unified_data[1].columns /\ DuplicateIds # {}) =>
        /\ "duplicate_ids" \in validation_results.keys
        /\ validation_results.duplicate_ids = DuplicateIds
        /\ validation_results.summary.data_quality # "PASS"

\* the record_type values of the store that the catalog does not register
\* for field 'record_type'
UnregisteredTypes ==
    {StoreRows[k].record_type : k \in DOMAIN StoreRows}
    \ {c.code : c \in {x \in Range(reference_codes[1]) : x.field = "record_type"}}

\* C8: the invalid record_type values reported are exactly the distinct
\* record_type values of the store that are not catalog codes of field
\* 'record_type'; the entry is absent when there is none, and codes of other
\* fields make no record_type value legal.
C8_InvalidRecordTypes ==
    ReportReturned =>
        /\ Range(validation_results.invalid_record_types) = UnregisteredTypes
        /\ "invalid_record_types" \in validation_results.keys <=> UnregisteredTypes # {}

\* a record_type value registered for another field only, and reported
C8_Witness ==
    /\ ReportReturned
    /\ \E c \in Range(reference_codes[1]) :
          /\ c.field # "record_type"
          /\ c.code \in {StoreRows[k].record_type : k \in DOMAIN StoreRows}
          /\ c.code \in Range(validation_results.invalid_record_types)
    /\ "invalid_record_types" \in validation_results.keys

\* C20: validate_data leaves unified_data and reference_codes unchanged, and
\* two consecutive calls on an unchanged store and catalog return equal
\* reports.
C20_ReadOnlyDeterministic ==
    /\ [](prev_outcome # "none" =>
            (val_outcome = prev_outcome /\ validation_results = prev_results))
    /\ [][loaded' = loaded =>
            (unified_data' = unified_data /\ reference_codes' = reference_codes)]_vars

\* validate_data was called twice on a loaded store that has issues to report
C20_Witness ==
    /\ DataLoaded
    /\ prev_outcome = "returned"
    /\ val_outcome = "returned"
    /\ prev_results.invalid_record_types # <<>>
    /\ validation_results = prev_results

(***************************************************************************)
(* Properties of the key milestones loop (SpecMs)                          *)
(***************************************************************************)
\* the thresholds met or exceeded by one of the first n values
ThresholdsMet(n) ==
    {t \in Range(Thresholds) : \E j \in 1..n : projections[j] >= t}

\* the first position whose value meets or exceeds t
FirstMeeting(t, n) ==
    CHOOSE j \in 1..n : projections[j] >= t /\ \A h \in 1..(j - 1) : projections[h] < t

\* C9: after any number of values, the milestones are, in ascending threshold
\* order, each threshold that some value met or exceeded, exactly once, with
\* the first year whose value >= threshold; thresholds never reached are
\* omitted and a recorded threshold keeps its first year.  For the series
\* 22, 35, 47, 54.2, 56.8, 59.4 over 2014..2027 only 50 is reported, at 2025.
C9_Milestones ==
    /\ \A t \in ThresholdsMet(ms_k) :
          Cardinality({k \in DOMAIN milestones : milestones[k][2] = t}) = 1
    /\ \A k \in DOMAIN milestones :
          /\ milestones[k][2] \in ThresholdsMet(ms_k)
          /\ milestones[k][1] = years[FirstMeeting(milestones[k][2], ms_k)]
    /\ \A a, b \in DOMAIN milestones : a < b => milestones[a][2] < milestones[b][2]
    /\ (years = ExampleYears /\ projections = ExampleSeries /\ ms_k = Len(ExampleSeries))
          => milestones = << <<2025, 500>> >>

\* a series that meets a threshold exactly, dips below it and crosses it again
C9_Witness ==
    /\ ms_k = ZipLen(years, projections)
    /\ \E a, b, c \in 1..ms_k :
          /\ a < b /\ b < c
          /\ projections[a] = Thresholds[1]
          /\ projections[b] < Thresholds[1]
          /\ projections[c] >= Thresholds[1]
          /\ milestones[1] = <<years[a], Thresholds[1]>>

(***************************************************************************)
(* Properties of Growth Rate Analysis (SpecGrowth)                         *)
(***************************************************************************)
\* the (year, value) points: historical observations, then forecast rows
GrowthPoints ==
    LET acc == AccSeries(historical)
    IN  [k \in DOMAIN acc |->
            [dated |-> acc[k].observation_date # NaT,
             year |-> YearOf(acc[k].observation_date), value |-> acc[k].value_numeric]]
        \o [k \in DOMAIN account_forecast |->
            [dated |-> TRUE,
             year |-> account_forecast[k].year, value |-> account_forecast[k].forecast]]

\* the row of growth_data computed for the pair of points k, k + 1
RowOfPair(k) == IF AccSeries(historical) = <<>> THEN growth_data[k + 1] ELSE growth_data[k]

\* C10: every consecutive pair of points yields absolute_change = value2 -
\* value1 and annualized_change = absolute_change / (year2 - year1), inside
\* the forecast segment and at the junction with the historical segment too.
C10_PeriodGrowth ==
    growth_pc = "done" =>
        \A k \in 1..(Len(GrowthPoints) - 1) :
            LET p1 == GrowthPoints[k]
                p2 == GrowthPoints[k + 1]
                row == RowOfPair(k)
            IN  (p1.dated /\ p2.dated /\ p2.year # p1.year) =>
                   /\ row.Growth_pp = p2.value - p1.value
                   /\ row.Annual_den # 0
                   /\ row.Annual_num * (p2.year - p1.year)
                         = (p2.value - p1.value) * row.Annual_den

\* two consecutive points of the historical series fall in the same year
SameYearPair ==
    LET acc == AccSeries(historical)
    IN  \E k \in 1..(Len(acc) - 1) :
           /\ acc[k].observation_date # NaT
           /\ acc[k + 1].observation_date # NaT
           /\ YearOf(acc[k].observation_date) = YearOf(acc[k + 1].observation_date)

\* C11: when two consecutive points of the series fall in the same year, the
\* growth computation fails with InvalidPeriodError; it yields no row whose
\* annualized change is infinite or not a number.
C11_InvalidPeriod ==
    (growth_pc # "start" /\ SameYearPair) =>
        /\ growth_pc = "InvalidPeriodError"
        /\ \A k \in DOMAIN growth_data :
              growth_data[k].Annual_nan \/ growth_data[k].Annual_den # 0

(***************************************************************************)
(* Properties of get_data_summary (SpecSum)                                *)
(***************************************************************************)
SummaryReturned == sum_outcome = "returned" /\ unified_data # None

\* the table of the summary for the k-th grouping field
TableOf(k) == summary[SummaryKeys[k]]

\* C16: for each of the four grouping fields the summary has one entry per
\* observed value, with its count and its percentage of the total record
\* count, in non-increasing count order; 8 'observation' and 2 'event'
\* records give observation (8, 80.0) then event (2, 20.0).
C16_FrequencyTables ==
    SummaryReturned =>
        LET frame == unified_data[1]
            total == Len(frame.rows)
        IN  /\ \A k \in DOMAIN GroupFields :
                 LET col == Column(frame, GroupFields[k])
                     t == TableOf(k).rows
                 IN  /\ {t[j].value : j \in DOMAIN t} = Range(col)
                     /\ Len(t) = Cardinality(Range(col))
                     /\ \A j \in DOMAIN t : t[j].count = CountOf(col, t[j].value)
                     /\ \A j \in 1..(Len(t) - 1) : t[j].count >= t[j + 1].count
                     /\ "percentage" \in Range(TableOf(k).columns)
                     /\ \A j \in DOMAIN t :
                          \* percentage, in tenths, is count / total * 100
                          t[j].percentage * total = t[j].count * 1000
            /\ frame.rows = ExampleRecords =>
                 summary.record_types.rows =
                    <<[value |-> "observation", count |-> 8, percentage |-> 800],
                      [value |-> "event", count |-> 2, percentage |-> 200]>>

\* C17: when a grouping field is absent from all records of a loaded store,
\* get_data_summary raises no error and returns an empty table for that field
\* and the tables of the other fields.
C17_AbsentFieldEmptyTable ==
    (unified_data # None /\ sum_outcome # "none") =>
        /\ sum_outcome = "returned"
        /\ \A k \in DOMAIN GroupFields :
              IF GroupFields[k] \in unified_data[1].columns
              THEN TableOf(k).rows = ValueCounts(Column(unified_data[1], GroupFields[k]))
              ELSE TableOf(k).rows = <<>>

\* the records of a table that carry an observation_date
Dated(hist) ==
    LET HasDate(r) == r.observation_date # NaT
    IN  SelectSeq(hist, HasDate)

\* C14: the period growth rates exclude the records whose observation_date is
\* null: such a record raises no error and contributes no period, year or
\* value, so the rows are those computed without it.
C14_NullDatesExcluded ==
    growth_pc # "start" =>
        /\ growth_pc = "done"
        /\ growth_data =
              HistoricalGrowth(AccSeries(Dated(historical)))
                 \o ForecastGrowth(AccSeries(Dated(historical)), account_forecast)

(***************************************************************************)
(* Properties of the Overview account metric (SpecDash)                    *)
(***************************************************************************)
\* the observations the metric is about, in the order of the table
Matching == CurrentAccount(historical)

OverviewDone == "overview" \in dash_done

\* the matching observations all carry a date and no two carry the same
DistinctDates ==
    /\ \A k \in DOMAIN Matching : Matching[k].observation_date # NaT
    /\ \A j, k \in DOMAIN Matching :
          j # k => Matching[j].observation_date # Matching[k].observation_date

\* C18: whatever the insertion order of the matching observations, the latest
\* value reported is that of the observation with the greatest
\* observation_date, and the delta is taken against the second greatest.
C18_LatestByDate ==
    (OverviewDone /\ DistinctDates /\ Matching # <<>>) =>
        LET byDate == SortByDate(Matching)
            n == Len(byDate)
        IN  /\ ov_metric.shown
            /\ ov_metric.value = byDate[n].value_numeric
            /\ n > 1 => ov_metric.delta
                           = byDate[n].value_numeric - byDate[n - 1].value_numeric

ClaimedGrowth(outcome, pct, a, b) ==
    IF a = 0
    THEN outcome = "DivisionByZeroError"
    ELSE outcome = "displayed" /\ pct = [num |-> (b - a) * 100, den |-> a]

\* C12: the growth percentage from an earlier a to a later b is
\* ((b / a) - 1) * 100, and with a = 0 the computation fails with
\* DivisionByZeroError instead of displaying an infinite or undefined
\* percentage, in the Overview P2P delta and in the three P2P growth metrics.
C12_GrowthPercentage ==
    LET p2p_data == P2PData(historical)
        n == Len(p2p_data)
        dated == SelectSeq(p2p_data, LAMBDA r : r.observation_date # NaT)
        m == Len(dated)
    IN  /\ (p2p_metric.outcome # "none" /\ n >= 2) =>
              ClaimedGrowth(p2p_metric.outcome, p2p_metric.delta,
                            p2p_data[n - 1].value_numeric, p2p_data[n].value_numeric)
        /\ (p2p_growth.outcome # "none" /\ m >= 1 /\ Len(p2p_forecast) >= 3) =>
              /\ ClaimedGrowth(p2p_growth.outcome, p2p_growth.growth_2025,
                               dated[m].value_numeric, p2p_forecast[1].forecast)
              /\ ClaimedGrowth(p2p_growth.outcome, p2p_growth.growth_2026,
                               p2p_forecast[1].forecast, p2p_forecast[2].forecast)
              /\ ClaimedGrowth(p2p_growth.outcome, p2p_growth.cumulative,
                               dated[m].value_numeric, p2p_forecast[3].forecast)

(***************************************************************************)
(* Properties of the scenario handlers (SpecScen)                          *)
(***************************************************************************)
\* a row out of the order pessimistic <= baseline <= optimistic
Inverted(r) == ~(r.pessimistic <= r.baseline /\ r.baseline <= r.optimistic)

\* the values of the scenario table have been used
ScenariosConsumed ==
    \/ scenario_band.outcome = "drawn"
    \/ /\ selected.outcome = "selected"
       /\ selected.scenario \in {"Optimistic", "Pessimistic"}

\* C13: a scenario row that violates pessimistic <= baseline <= optimistic is
\* reported before its values are used for the scenario band or for the
\* projection of the selected scenario; any message at all counts as a report.
C13_InvertedRowsReported ==
    (ScenariosConsumed /\ \E k \in DOMAIN scenarios : Inverted(scenarios[k]))
        => scen_messages # {}

(***************************************************************************)
(* Properties of the Data Explorer (SpecExplorer)                          *)
(***************************************************************************)
\* an input table that is missing or has no row
EmptyInput(k) == files[k].rows = <<>>

\* some input tables are empty and not all of them (no demo fallback)
SomeEmptyNotAll ==
    /\ \E k \in FileKeys : EmptyInput(k)
    /\ \E k \in FileKeys : ~EmptyInput(k)

\* C15: when some input tables are empty or missing, and not all of them, the
\* Data Explorer never fails: it displays the rows or ends in "no data"; with
\* an empty historical table and both forecast tables filled, each dataset
\* taken from the historical table ends in "no data".
C15_GracefulDegradation ==
    (explorer_pc = "done" /\ SomeEmptyNotAll) =>
        /\ explorer.outcome \in {"displayed", "no data"}
        /\ ( /\ EmptyInput("historical")
             /\ ~EmptyInput("account_forecast")
             /\ ~EmptyInput("p2p_forecast")
             /\ explorer.dataset \in {"Historical Observations", "Events", "All Data"} )
              => explorer.outcome = "no data"

(***************************************************************************)
(* Termination of generate_record_id (SpecGenLive)                         *)
(***************************************************************************)
\* the number the numeric loop starts from, line 134
FirstNum == ParseInt(ReMatch(base_id).num)

\* C21: for every base_id and every finite existing_ids the call terminates:
\* each of the two search loops reaches a candidate outside existing_ids
\* after at most as many increments as there are existing identifiers.
C21_Terminates ==
    /\ <>(gen_pc = "done")
    /\ [](gen_pc = "num_loop" => num <= FirstNum + Cardinality(existing_ids))
    /\ [](gen_pc = "simple_loop" => i <= 1 + Cardinality(existing_ids))
    /\ []((gen_pc = "done" /\ base_id \in existing_ids) =>
             IF ReMatch(base_id).matched
             THEN NumCandidate(prefix, num) \notin existing_ids
             ELSE SimpleCandidate(base_id, i) \notin existing_ids)

\* a call that has returned after two increments of a loop
C21_Witness ==
    /\ gen_pc = "done"
    /\ base_id \in existing_ids
    /\ \/ ReMatch(base_id).matched /\ num >= FirstNum + 2
       \/ ~ReMatch(base_id).matched /\ i >= 3

(***************************************************************************)
(* Properties of the Detailed Projections table (SpecScen)                 *)
(***************************************************************************)
\* the value of scenario row r under the scenario selected
ScenarioValue(r) ==
    IF selected.scenario = "Optimistic" THEN r.optimistic ELSE r.pessimistic

\* C22: under the Optimistic or Pessimistic scenario every row of the table
\* shows, for its year y, the optimistic/pessimistic value of an
\* account-ownership scenario row of year y, and a Gap_to_Target of 70 minus
\* that value, whatever the order and the number of the scenario rows.
C22_ProjectionOfItsYear ==
    (proj_table.outcome = "shown" /\ selected.scenario \in {"Optimistic", "Pessimistic"}) =>
        \A k \in DOMAIN proj_table.rows :
            \E j \in DOMAIN scenarios :
                /\ scenarios[j].year = proj_table.rows[k].Year
                /\ scenarios[j].indicator = "ACC_OWNERSHIP"
                /\ proj_table.rows[k].Projection = ScenarioValue(scenarios[j])
                /\ proj_table.rows[k].Gap_to_Target = TargetPct - ScenarioValue(scenarios[j])

====
